---- MODULE Spec2Model ----
(***************************************************************************)
(* A model of src/app.py: the Streamlit script that loads a CSV of city    *)
(* temperatures, enriches the selected city's series with rolling          *)
(* statistics and anomaly flags, fetches the live temperature and compares *)
(* it with the mean +- 2 std band of the city's most common season.        *)
(*                                                                         *)
(* Numbers.  The script computes with floats.  The model computes exactly: *)
(* a number is NaN or a value  num/den + k * sqrt(vnum/vden)  with den > 0,*)
(* vden > 0 and vnum >= 0.  A temperature and a mean have k = 0; a         *)
(* standard deviation is a pure root; a bound is a mean plus or minus a    *)
(* multiple of one root.  No other shape arises in the script.             *)
(*                                                                         *)
(* Data frames.  A frame is a function from column names to columns, a     *)
(* column being a sequence of cells; all columns of a frame have the same  *)
(* length.  Frames are objects: heap[r] is the frame the reference r       *)
(* points to, and the reference 0 is None.                                 *)
(***************************************************************************)
EXTENDS Integers, Sequences, FiniteSets, TLC

VARIABLES
    pc,             \* the statement of the script that runs next
    uploaded_file,  \* the content of the uploaded CSV: a frame of raw cells
    heap,           \* the data frame objects that exist in this run
    df,             \* src/app.py:78   reference to the loaded frame, 0 = None
    df_city,        \* src/app.py:82   reference to the selected city's frame
    window,         \* src/app.py:27   the window moving_average is called with
    city,           \* src/app.py:81   the selected city
    method,         \* src/app.py:101  the selected request method
    transport,      \* what the network did with the GET of this run
    weather_data,   \* src/app.py:104  what the fetch returned
    output,         \* the elements the script has shown in this run
    exception,      \* the exception that ended this run, "" when none did
    requests,       \* the HTTP GETs issued since the session started
    clicks,         \* the runs started by "Get current temperature"
    runs,           \* the script runs started since the session started
    cache           \* the entries st.cache_data holds, per cached function

vars == <<pc, uploaded_file, heap, df, df_city, window, city, method,
          transport, weather_data, output, exception, requests, clicks, runs, cache>>

----------------------------------------------------------------------------
(* Bounds of the model. *)

MaxLen == 6
MaxWindow == 7
MaxRows == 3
MaxRuns == 2

\* the inputs the model draws from
StatTemps == {10, 50}
Cities == {"A", "B"}
SeasonalCities == {"A"}
Temps == 0..2
Seasons == {"summer", "winter"}
TimeStamps == {1, 2}
LiveTemps == -2..4
ErrorStatuses == {404}

(* Program constants. *)

DefaultWindow == 30
BandWidth == 2
MinPlotRows == 10
StatusOK == 200

----------------------------------------------------------------------------
(* Exact arithmetic for the floats of the script. *)

NaN == [nan |-> TRUE, num |-> 0, den |-> 1, k |-> 0, vnum |-> 0, vden |-> 1]

Num(n) == [nan |-> FALSE, num |-> n, den |-> 1, k |-> 0, vnum |-> 0, vden |-> 1]

Sgn(n) == IF n > 0 THEN 1 ELSE IF n < 0 THEN -1 ELSE 0

\* c * x for an integer c
Times(c, x) ==
    IF x.nan THEN NaN
    ELSE [x EXCEPT !.num = c * x.num, !.k = c * x.k]

\* x + y, where at most one of x and y has a root part
Plus(x, y) ==
    IF x.nan \/ y.nan THEN NaN
    ELSE LET r == IF x.k = 0 THEN y ELSE x
         IN  [nan |-> FALSE,
              num |-> x.num * y.den + y.num * x.den, den |-> x.den * y.den,
              k |-> r.k, vnum |-> r.vnum, vden |-> r.vden]

Minus(x, y) == Plus(x, Times(-1, y))

\* the sign of a number that is not NaN
Sign(x) ==
    LET a == Sgn(x.num)
        b == Sgn(x.k) * Sgn(x.vnum)
        a2 == x.num * x.num * x.vden
        b2 == x.k * x.k * x.vnum * x.den * x.den
    IN  IF a = 0 THEN b
        ELSE IF b = 0 \/ a = b THEN a
        ELSE IF a2 > b2 THEN a
        ELSE IF a2 = b2 THEN 0
        ELSE b

\* float comparisons: any comparison with NaN is False
Lt(x, y) == ~x.nan /\ ~y.nan /\ Sign(Minus(y, x)) = 1
Gt(x, y) == Lt(y, x)
Le(x, y) == ~x.nan /\ ~y.nan /\ Sign(Minus(y, x)) >= 0

----------------------------------------------------------------------------
(* pandas: Series.mean, Series.std and Series.rolling. *)

RECURSIVE SumSeq(_)
SumSeq(xs) == IF xs = <<>> THEN 0 ELSE Head(xs) + SumSeq(Tail(xs))

RECURSIVE SumSq(_)
SumSq(xs) == IF xs = <<>> THEN 0 ELSE Head(xs) * Head(xs) + SumSq(Tail(xs))

\* Series.mean(): NaN for an empty series
Mean(xs) ==
    IF Len(xs) = 0 THEN NaN
    ELSE [nan |-> FALSE, num |-> SumSeq(xs), den |-> Len(xs),
          k |-> 0, vnum |-> 0, vden |-> 1]

\* Series.std(): ddof = 1, so NaN for fewer than two values
Std(xs) ==
    LET n == Len(xs)
    IN  IF n < 2 THEN NaN
        ELSE [nan |-> FALSE, num |-> 0, den |-> 1, k |-> 1,
              vnum |-> n * SumSq(xs) - SumSeq(xs) * SumSeq(xs),
              vden |-> n * (n - 1)]

\* a slip: the window of row i ends at the row before it
WindowBeforeRow(xs, w, i) == IF i <= w THEN <<>> ELSE SubSeq(xs, i - w, i - 1)

\* a slip: min_periods = 1, so the first rows get the rows there are
WindowPartial(xs, w, i) == SubSeq(xs, IF i < w THEN 1 ELSE i - w + 1, i)

\* the window ending at row i: rows i-w+1 .. i, present once w rows exist
\* (min_periods defaults to the window)
Window(xs, w, i) == IF i < w THEN <<>> ELSE SubSeq(xs, i - w + 1, i)

RollingMean(xs, w) == [i \in 1..Len(xs) |-> Mean(Window(xs, w, i))]

RollingStd(xs, w) == [i \in 1..Len(xs) |-> Std(Window(xs, w, i))]

----------------------------------------------------------------------------
(* Data frames. *)

NRows(f) == IF DOMAIN f = {} THEN 0 ELSE Len(f[CHOOSE c \in DOMAIN f : TRUE])

\* df[name] = column: adds the column, or replaces it
SetColumn(f, name, column) ==
    [c \in DOMAIN f \cup {name} |-> IF c = name THEN column ELSE f[c]]

\* src/app.py:28-29, the body of moving_average on the frame f
moving_average(f, w) ==
    LET f1 == SetColumn(f, "rolling_mean", RollingMean(f["temperature"], w))
    IN  SetColumn(f1, "rolling_std", RollingStd(f["temperature"], w))

\* src/app.py:35
UpperBound(mean, std) == Plus(mean, Times(BandWidth, std))

\* src/app.py:36
LowerBound(mean, std) == Minus(mean, Times(BandWidth, std))

\* src/app.py:35-37, the body of detect_anomalies on the frame f
detect_anomalies(f) ==
    LET n  == NRows(f)
        f1 == SetColumn(f, "upper_bound",
                  [i \in 1..n |-> UpperBound(f["rolling_mean"][i], f["rolling_std"][i])])
        f2 == SetColumn(f1, "lower_bound",
                  [i \in 1..n |-> LowerBound(f1["rolling_mean"][i], f1["rolling_std"][i])])
    IN  SetColumn(f2, "anomaly",
            [i \in 1..n |-> \/ Gt(Num(f2["temperature"][i]), f2["upper_bound"][i])
                            \/ Lt(Num(f2["temperature"][i]), f2["lower_bound"][i])])

----------------------------------------------------------------------------
(* Python values. *)

None == [type |-> "NoneType"]

\* a dict: items is a function from the keys to the values
Dict(items) == [type |-> "dict", items |-> items]

EmptyDict == Dict([key \in {} |-> 0])

\* bool(v) of None or a dict
Truthy(v) == v.type = "dict" /\ DOMAIN v.items # {}

\* an element the script shows: st.error, st.success, st.write, st.warning,
\* st.plotly_chart; detail is what the text names (column names, the API's
\* message)
Element(call, text, detail) == [call |-> call, text |-> text, detail |-> detail]

----------------------------------------------------------------------------
(* The CSV loader. *)

RequiredColumns == {"city", "timestamp", "temperature", "season"}

\* a slip: season is not checked
HasRequiredColumnsButSeason(f) == (RequiredColumns \ {"season"}) \subseteq DOMAIN f

\* src/app.py:16-17
HasRequiredColumns(f) == RequiredColumns \subseteq DOMAIN f

\* load_data(file): the frame or None, and the error shown.
\* pd.read_csv raises EmptyDataError on a file with no columns and ValueError
\* on one without the parse_dates column; both reach the except clause.
load_data(file) ==
    IF DOMAIN file = {}
    THEN [value |-> <<>>,
          shown |-> <<Element("error", "Data loading error: No columns to parse from file", {})>>]
    ELSE IF "timestamp" \notin DOMAIN file
    THEN [value |-> <<>>,
          shown |-> <<Element("error", "Data loading error: Missing column provided to 'parse_dates'",
                              {"timestamp"})>>]
    ELSE IF ~HasRequiredColumns(file)
    THEN [value |-> <<>>,
          shown |-> <<Element("error", "Error: The file must contain columns", RequiredColumns)>>]
    ELSE [value |-> <<file>>, shown |-> <<>>]

----------------------------------------------------------------------------
(* Selecting the city's rows. *)

\* the rows of f, in order, whose index satisfies Keep
RECURSIVE SelectRows(_, _, _)
SelectRows(column, mask, i) ==
    IF i > Len(column) THEN <<>>
    ELSE (IF mask[i] THEN <<column[i]>> ELSE <<>>) \o SelectRows(column, mask, i + 1)

\* df[mask]
Filter(f, mask) == [c \in DOMAIN f |-> SelectRows(f[c], mask, 1)]

\* df[column] == value
EqMask(f, column, value) == [i \in 1..NRows(f) |-> f[column][i] = value]

\* df['city'].unique(), as a set
Unique(column) == {column[i] : i \in 1..Len(column)}

NoCity == "None"

\* st.selectbox: what the user may have selected, None when there is no option
Options(column) == IF Unique(column) = {} THEN {NoCity} ELSE Unique(column)

----------------------------------------------------------------------------
(* The seasonal baseline. *)

Missing == "NaN"

\* the sort order of the season labels
SeasonRank(s) ==
    CASE s = "autumn" -> 1
      [] s = "spring" -> 2
      [] s = "summer" -> 3
      [] s = "winter" -> 4
      [] OTHER -> 5

Count(column, v) == Cardinality({i \in 1..Len(column) : column[i] = v})

\* Series.mode(): the most frequent values, missing ones dropped, sorted
Mode(column) ==
    LET vals == Unique(column) \ {Missing}
        top  == {v \in vals : \A u \in vals : Count(column, u) <= Count(column, v)}
    IN  top

\* df_city['season'].mode()[0] if not df_city['season'].mode().empty else None
MostCommonSeason(f) ==
    LET mode == Mode(f["season"])
    IN  IF mode = {} THEN Missing
        ELSE CHOOSE s \in mode : \A u \in mode : SeasonRank(s) <= SeasonRank(u)

\* df_city[df_city['season'] == most_common_season]['temperature']
SeasonTemperatures(f, season) == Filter(f, EqMask(f, "season", season))["temperature"]

\* a slip: the ends of the range are left out
WithinRangeStrict(lower, t, upper) == Lt(lower, t) /\ Lt(t, upper)

\* src/app.py:117, lower_bound <= current_temp <= upper_bound
WithinRange(lower, t, upper) == Le(lower, t) /\ Le(t, upper)

\* src/app.py:111-120: the elements shown for the live temperature t
Classify(f, t) ==
    LET most_common_season == MostCommonSeason(f)
        season_mean == Mean(SeasonTemperatures(f, most_common_season))
        season_std  == Std(SeasonTemperatures(f, most_common_season))
        lower_bound == LowerBound(season_mean, season_std)
        upper_bound == UpperBound(season_mean, season_std)
    IN  IF most_common_season = Missing THEN <<>>
        ELSE IF WithinRange(lower_bound, Num(t), upper_bound)
        THEN <<Element("success", "Temperature is within normal range.", {})>>
        ELSE <<Element("error", "Anomalous temperature!", {})>>

----------------------------------------------------------------------------
(* The weather fetch. *)

Methods == {"Synchronous", "Asynchronous"}

\* the bodies a response may carry
Bodies ==
    {Dict([key \in {"main"} |-> Dict([k \in {"temp"} |-> t])]) : t \in LiveTemps}
    \cup {Dict([key \in {"main"} |-> EmptyDict]),
          EmptyDict,
          Dict([key \in {"cod"} |-> "cod"]),
          Dict([key \in {"cod", "message"} |-> IF key = "message" THEN "city not found" ELSE "cod"])}

\* what the network does with one GET
Outcomes ==
    {[kind |-> "response", status |-> StatusOK, body |-> b] : b \in Bodies}
    \cup {[kind |-> "response", status |-> s, body |-> b] :
             s \in ErrorStatuses, b \in {d \in Bodies : "main" \notin DOMAIN d.items}}
    \cup {[kind |-> k, status |-> 0, body |-> EmptyDict] : k \in {"network_error", "timeout"}}

NoTransport == [kind |-> "none", status |-> 0, body |-> EmptyDict]

\* data.get('message', 'Unknown error')
GetMessage(data) ==
    IF "message" \in DOMAIN data.items THEN data.items["message"] ELSE "Unknown error"

\* src/app.py:46-49 and 61-64: the status check both paths share
OnResponse(o) ==
    IF o.status # StatusOK
    THEN [value |-> None, raised |-> "", gets |-> 1,
          shown |-> <<Element("error", "API Error", {GetMessage(o.body)})>>]
    ELSE [value |-> o.body, raised |-> "", gets |-> 1, shown |-> <<>>]

\* a slip: a failed GET is tried once more
fetch_weather_sync_Retry(o) ==
    IF o.kind = "response" THEN OnResponse(o)
    ELSE [value |-> None, raised |-> "", gets |-> 2,
          shown |-> <<Element("error", "API request error", {})>>]

\* src/app.py:41-52.  requests raises ConnectionError and Timeout, both
\* RequestException, which the except clause catches.
fetch_weather_sync(o) ==
    IF o.kind = "response" THEN OnResponse(o)
    ELSE [value |-> None, raised |-> "", gets |-> 1,
          shown |-> <<Element("error", "API request error", {})>>]

\* a slip: asyncio.TimeoutError is not caught
fetch_weather_async_TimeoutEscapes(o) ==
    IF o.kind = "response" THEN OnResponse(o)
    ELSE IF o.kind = "timeout"
    THEN [value |-> None, raised |-> "TimeoutError", gets |-> 1, shown |-> <<>>]
    ELSE [value |-> None, raised |-> "", gets |-> 1,
          shown |-> <<Element("error", "Connection error with API", {})>>]

\* src/app.py:55-70.  aiohttp raises asyncio.TimeoutError and ClientError.
fetch_weather_async(o) ==
    IF o.kind = "response" THEN OnResponse(o)
    ELSE IF o.kind = "timeout"
    THEN [value |-> None, raised |-> "", gets |-> 1,
          shown |-> <<Element("error", "Error: API request timeout", {})>>]
    ELSE [value |-> None, raised |-> "", gets |-> 1,
          shown |-> <<Element("error", "Connection error with API", {})>>]

----------------------------------------------------------------------------
(* The uploaded files. *)

\* a file with the columns cols whose rows are the records of rows
FileOf(cols, rows) == [c \in cols |-> [i \in 1..Len(rows) |-> rows[i][c]]]

RowSeqs(S) == UNION {[1..n -> S] : n \in 0..MaxRows}

\* the rows of those files: any temperature in any season, and rows whose
\* season cell is empty
SeasonalRows ==
    [city : SeasonalCities, temperature : Temps, season : Seasons]
    \cup [city : SeasonalCities, temperature : {0}, season : {Missing}]

\* files with every column, rows in time order: temperatures and seasons vary
SeasonalFiles ==
    {FileOf(RequiredColumns,
            [i \in 1..Len(r) |-> [city |-> r[i].city, timestamp |-> i,
                                  temperature |-> r[i].temperature, season |-> r[i].season]]) :
        r \in RowSeqs(SeasonalRows)}

\* files with any of the required columns: cities and time stamps vary
LoaderFiles ==
    {FileOf(cols,
            [i \in 1..Len(r) |-> [city |-> r[i].city, timestamp |-> r[i].timestamp,
                                  temperature |-> 0, season |-> "winter"]]) :
        cols \in SUBSET RequiredColumns,
        r \in RowSeqs([city : Cities, timestamp : TimeStamps])}

\* a frame of one city's rows with the temperatures temps, as moving_average
\* is given
SeriesFrame(temps) ==
    FileOf(RequiredColumns,
           [i \in 1..Len(temps) |-> [city |-> "A", timestamp |-> i,
                                     temperature |-> temps[i], season |-> "winter"]])

----------------------------------------------------------------------------
(* The script. *)

NoCache == [load_data |-> {}, moving_average |-> {}, detect_anomalies |-> {}]

\* the state in which a run of the script starts
RunStart ==
    /\ pc = "load_data"
    /\ heap = <<>>
    /\ df = 0
    /\ df_city = 0
    /\ city = NoCity
    /\ method = "Synchronous"
    /\ transport = NoTransport
    /\ weather_data = None
    /\ output = <<>>
    /\ exception = ""

InitWith(files) ==
    /\ uploaded_file \in files
    /\ window = DefaultWindow
    /\ RunStart
    /\ requests = 0
    /\ clicks = 0
    /\ runs = 1
    /\ cache = NoCache

Init == InitWith(SeasonalFiles)

InitLoader == InitWith(LoaderFiles)

\* moving_average is about to be called on a series, with any window
InitStats ==
    /\ uploaded_file = <<>>
    /\ \E temps \in UNION {[1..n -> StatTemps] : n \in 0..MaxLen} :
           heap = <<SeriesFrame(temps)>>
    /\ window \in 1..MaxWindow
    /\ pc = "moving_average"
    /\ df = 0
    /\ df_city = 1
    /\ city = "A"
    /\ method = "Synchronous"
    /\ transport = NoTransport
    /\ weather_data = None
    /\ output = <<>>
    /\ exception = ""
    /\ requests = 0
    /\ clicks = 0
    /\ runs = 1
    /\ cache = NoCache

\* src/app.py:77-79.  st.cache_data returns a new copy of the cached value on
\* a hit and replays the elements shown, so a hit and a miss look the same
\* to the script.
LoadData ==
    /\ pc = "load_data"
    /\ LET r == load_data(uploaded_file)
       IN  /\ output' = output \o r.shown
           /\ cache' = [cache EXCEPT !.load_data = @ \cup {uploaded_file}]
           /\ IF r.value = <<>>
              THEN /\ df' = 0
                   /\ heap' = heap
                   /\ pc' = "done"
              ELSE /\ heap' = Append(heap, r.value[1])
                   /\ df' = Len(heap) + 1
                   /\ pc' = "select_city"
    /\ UNCHANGED <<uploaded_file, transport, df_city, window, city, method, weather_data,
                   exception, requests, clicks, runs>>

\* src/app.py:80-82
SelectCity ==
    /\ pc = "select_city"
    /\ \E c \in Options(heap[df]["city"]) :
           /\ city' = c
           /\ heap' = Append(heap, Filter(heap[df], EqMask(heap[df], "city", c)))
    /\ df_city' = Len(heap) + 1
    /\ pc' = "moving_average"
    /\ UNCHANGED <<uploaded_file, transport, df, window, method, weather_data, output,
                   exception, requests, clicks, runs, cache>>

\* src/app.py:84 with 26-30.  On a miss the function body runs on the frame
\* it is given and returns that same object; on a hit st.cache_data returns
\* a new copy of the stored value and the body does not run.
MovingAverage ==
    /\ pc = "moving_average"
    /\ LET key == <<heap[df_city], window>>
       IN  IF key \in cache.moving_average
           THEN /\ heap' = Append(heap, moving_average(key[1], key[2]))
                /\ df_city' = Len(heap) + 1
                /\ cache' = cache
           ELSE /\ heap' = [heap EXCEPT ![df_city] = moving_average(@, window)]
                /\ df_city' = df_city
                /\ cache' = [cache EXCEPT !.moving_average = @ \cup {key}]
    /\ pc' = "detect_anomalies"
    /\ UNCHANGED <<uploaded_file, transport, df, window, city, method, weather_data,
                   output, exception, requests, clicks, runs>>

\* src/app.py:85 with 33-38
DetectAnomalies ==
    /\ pc = "detect_anomalies"
    /\ LET key == heap[df_city]
       IN  IF key \in cache.detect_anomalies
           THEN /\ heap' = Append(heap, detect_anomalies(key))
                /\ df_city' = Len(heap) + 1
                /\ cache' = cache
           ELSE /\ heap' = [heap EXCEPT ![df_city] = detect_anomalies(@)]
                /\ df_city' = df_city
                /\ cache' = [cache EXCEPT !.detect_anomalies = @ \cup {key}]
    /\ pc' = "plot"
    /\ UNCHANGED <<uploaded_file, transport, df, window, city, method, weather_data,
                   output, exception, requests, clicks, runs>>

\* src/app.py:87-96
Plot ==
    /\ pc = "plot"
    /\ output' = Append(output,
           IF NRows(heap[df_city]) > MinPlotRows
           THEN Element("plotly_chart", "Temperature", {})
           ELSE Element("warning", "Not enough data to plot a graph", {}))
    /\ pc' = "widgets"
    /\ UNCHANGED <<uploaded_file, transport, heap, df, df_city, window, city, method,
                   weather_data, exception, requests, clicks, runs, cache>>

\* src/app.py:101-102: the radio's value, and whether this run was started
\* by the button
Widgets ==
    /\ pc = "widgets"
    /\ \E m \in Methods, pressed \in BOOLEAN :
           /\ method' = m
           /\ pc' = IF pressed THEN "fetch" ELSE "done"
           /\ clicks' = IF pressed THEN clicks + 1 ELSE clicks
    /\ UNCHANGED <<uploaded_file, transport, heap, df, df_city, window, city,
                   weather_data, output, exception, requests, runs, cache>>

\* src/app.py:103-106
Fetch ==
    /\ pc = "fetch"
    /\ \E o \in Outcomes :
           LET r == IF method = "Synchronous" THEN fetch_weather_sync(o)
                    ELSE fetch_weather_async(o)
           IN  /\ transport' = o
               /\ requests' = requests + r.gets
               /\ output' = output \o r.shown
               /\ weather_data' = r.value
               /\ exception' = r.raised
               /\ pc' = IF r.raised = "" THEN "classify" ELSE "done"
    /\ UNCHANGED <<uploaded_file, heap, df, df_city, window, city, method,
                   clicks, runs, cache>>

\* src/app.py:108-122
ClassifyReading ==
    /\ pc = "classify"
    /\ IF Truthy(weather_data) /\ "main" \in DOMAIN weather_data.items
       THEN LET main == weather_data.items["main"]
            IN  IF "temp" \in DOMAIN main.items
                THEN /\ output' = output
                            \o <<Element("write", "Current temperature", {})>>
                            \o Classify(heap[df_city], main.items["temp"])
                     /\ exception' = ""
                ELSE /\ output' = output
                     /\ exception' = "KeyError"
       ELSE /\ output' = Append(output,
                   Element("error", "Error retrieving data. Check API key and city name.", {}))
            /\ exception' = ""
    /\ pc' = "done"
    /\ UNCHANGED <<uploaded_file, transport, heap, df, df_city, window, city, method,
                   weather_data, requests, clicks, runs, cache>>

\* any interaction with a widget runs the script again from the top; the
\* uploaded file, the counters and the cache outlive the run
Rerun ==
    /\ pc = "done"
    /\ runs < MaxRuns
    /\ runs' = runs + 1
    /\ pc' = "load_data"
    /\ heap' = <<>>
    /\ df' = 0
    /\ df_city' = 0
    /\ city' = NoCity
    /\ method' = "Synchronous"
    /\ transport' = NoTransport
    /\ weather_data' = None
    /\ output' = <<>>
    /\ exception' = ""
    /\ UNCHANGED <<uploaded_file, window, requests, clicks, cache>>

Next ==
    \/ LoadData
    \/ SelectCity
    \/ MovingAverage
    \/ DetectAnomalies
    \/ Plot
    \/ Widgets
    \/ Fetch
    \/ ClassifyReading
    \/ Rerun

NextStats ==
    \/ MovingAverage
    \/ DetectAnomalies

Spec == Init /\ [][Next]_vars

SpecLoader == InitLoader /\ [][Next]_vars

SpecStats == InitStats /\ [][NextStats]_vars

----------------------------------------------------------------------------
(* Terms of the properties below. *)

Shown(call, text) ==
    \E i \in 1..Len(output) : output[i].call = call /\ output[i].text = text

\* the verdict the run shows for the live temperature
Verdict ==
    IF Shown("success", "Temperature is within normal range.") THEN "Normal"
    ELSE IF Shown("error", "Anomalous temperature!") THEN "Anomalous"
    ELSE "Undetermined"

Fetched == transport # NoTransport

\* the response was a 200 whose body has main.temp
HasReading ==
    /\ transport.kind = "response"
    /\ transport.status = StatusOK
    /\ "main" \in DOMAIN transport.body.items
    /\ "temp" \in DOMAIN transport.body.items["main"].items

LiveTemp == transport.body.items["main"].items["temp"]

\* the n-th column of the enriched frame
Enriched(column) == heap[df_city][column]

IsValue(x, n) == ~x.nan /\ Sign(Minus(x, Num(n))) = 0

\* the temperatures of the selected city's rows of the most common season,
\* none when no row has a season
BaselineTemps ==
    LET season == MostCommonSeason(heap[df_city])
    IN  IF season = Missing THEN <<>>
        ELSE SeasonTemperatures(heap[df_city], season)

\* |t - mean| <= 2 * std for the mean and the unbiased std of xs, in integers:
\* (n-1) * (n*t - S)^2 <= 4 * n * (n*Q - S^2), S the sum and Q the sum of squares
InBand(xs, t) ==
    LET n == Len(xs)
        S == SumSeq(xs)
        Q == SumSq(xs)
    IN  (n - 1) * (n * t - S) * (n * t - S) <= 4 * n * (n * Q - S * S)

\* n * (n-1) times the variance of xs
Spread(xs) == Len(xs) * SumSq(xs) - SumSeq(xs) * SumSeq(xs)

OnBand(xs, t) ==
    LET n == Len(xs)
        S == SumSeq(xs)
        Q == SumSq(xs)
    IN  (n - 1) * (n * t - S) * (n * t - S) = 4 * n * (n * Q - S * S)

Sorted(xs) == \A i \in 1..Len(xs) : \A j \in 1..Len(xs) : i < j => xs[i] <= xs[j]

MissingColumns == RequiredColumns \ DOMAIN uploaded_file

----------------------------------------------------------------------------
C2_MalformedBodyIsError ==
    (/\ pc = "done"
     /\ transport.kind = "response"
     /\ transport.status = StatusOK
     /\ ~HasReading)
    => /\ exception = ""
       /\ Verdict # "Normal"
       /\ \E i \in 1..Len(output) : output[i].call = "error"

(* C3: when a live temperature was classified and the selected city has    *)
(* fewer than two rows of its most common season, or no season at all, the *)
(* verdict is Undetermined: neither Normal nor Anomalous is shown.         *)
C3_NoBaselineIsUndetermined ==
    (/\ pc = "done"
     /\ HasReading
     /\ exception = ""
     /\ Len(BaselineTemps) < 2)
    => Verdict = "Undetermined"

(* C4, as stated:  for the series [10,10,10,10,50] and the window 3, after *)
(* moving_average and detect_anomalies rows 0 and 1 have no rolling mean   *)
(* or std, row 3 has mean 10, std 0 and upper bound 10, and row 4 (50) is  *)
(* flagged.  Rows are counted from 1 here.                                 *)
C4_Series == <<10, 10, 10, 10, 50>>

C4_Case ==
    /\ pc = "plot"
    /\ Enriched("temperature") = C4_Series
    /\ window = 3

C4_FirstRows ==
    /\ \A i \in {1, 2} : Enriched("rolling_mean")[i].nan /\ Enriched("rolling_std")[i].nan
    /\ IsValue(Enriched("rolling_mean")[4], 10)
    /\ IsValue(Enriched("rolling_std")[4], 0)
    /\ IsValue(Enriched("upper_bound")[4], 10)
    /\ IsValue(Enriched("lower_bound")[4], 10)

C4_SpikeFlagged == C4_Case => (C4_FirstRows /\ Enriched("anomaly")[5])

(* C4, amended: as above, but row 4 (50) is not flagged: its own window is *)
(* [10,10,50], and 50 is below that window's upper bound.                  *)
C4_SpikeInOwnWindow ==
    C4_Case =>
        /\ C4_FirstRows
        /\ ~Enriched("anomaly")[5]
        /\ Lt(Num(50), Enriched("upper_bound")[5])
        /\ \A i \in 1..5 : ~Enriched("anomaly")[i]

C4_Witness == C4_Case /\ ~Enriched("anomaly")[5]

(* C5, as stated:  for every series and every window w >= 1, after         *)
(* moving_average and detect_anomalies a row before the w-th has no        *)
(* rolling mean, std or bounds and is not flagged, and a row from the w-th *)
(* on has all four.                                                        *)
C5_Rows(i) ==
    IF i < window
    THEN /\ Enriched("rolling_mean")[i].nan
         /\ Enriched("rolling_std")[i].nan
         /\ Enriched("upper_bound")[i].nan
         /\ Enriched("lower_bound")[i].nan
         /\ ~Enriched("anomaly")[i]
    ELSE /\ ~Enriched("rolling_mean")[i].nan
         /\ ~Enriched("rolling_std")[i].nan
         /\ ~Enriched("upper_bound")[i].nan
         /\ ~Enriched("lower_bound")[i].nan

C5_DefinedFromWindowOn ==
    pc = "plot" => \A i \in 1..Len(Enriched("temperature")) : C5_Rows(i)

(* C5, amended: the same for every window w >= 2.  (With w = 1 the std of  *)
(* a single value is undefined, so no row has a std or bounds.)            *)
C5_DefinedFromWindowOnAtLeast2 ==
    (pc = "plot" /\ window >= 2) =>
        /\ \A i \in 1..Len(Enriched("temperature")) : C5_Rows(i)
        /\ window > Len(Enriched("temperature")) =>
               \A i \in 1..Len(Enriched("temperature")) :
                   Enriched("rolling_mean")[i].nan /\ ~Enriched("anomaly")[i]

C5_Witness ==
    /\ pc = "plot"
    /\ window >= 2
    /\ window <= Len(Enriched("temperature"))
    /\ \E i \in 1..Len(Enriched("temperature")) : Enriched("anomaly")[i]

(* C6: when a live temperature T was classified against a baseline of two  *)
(* or more rows with mean m and std s, the verdict is Normal exactly when  *)
(* m - 2s <= T <= m + 2s, both ends included, and Anomalous otherwise.     *)
C6_NormalIffWithinBand ==
    (pc = "done" /\ HasReading /\ exception = "") =>
        LET xs == BaselineTemps
        IN  Len(xs) >= 2 =>
                Verdict = IF InBand(xs, LiveTemp) THEN "Normal" ELSE "Anomalous"

C6_Witness ==
    /\ pc = "done"
    /\ HasReading
    /\ Verdict = "Normal"
    /\ LET xs == BaselineTemps
       IN  Len(xs) >= 2 /\ OnBand(xs, LiveTemp) /\ Spread(xs) > 0

(* C7: the series of the selected city that moving_average is given is in  *)
(* ascending order of time stamp, whatever the order of the file's rows.   *)
C7_SeriesInTimeOrder ==
    pc = "moving_average" => Sorted(heap[df_city]["timestamp"])

(* C8, as stated:  load_data on a file without one of the four required    *)
(* columns returns None and shows an error that names every missing        *)
(* column.                                                                 *)
C8_Rejected ==
    /\ df = 0
    /\ heap = <<>>
    /\ Len(output) = 1
    /\ output[1].call = "error"

C9_ArgumentUnchanged ==
    [][(pc = "moving_average" \/ pc = "detect_anomalies")
          => heap'[df_city] = heap[df_city]]_vars

(* C10: every "Get current temperature" click issues exactly one GET: once *)
(* the fetch of a click has returned, with data or with an error, the GETs *)
(* issued since the session started are as many as the clicks; a failed    *)
(* fetch is not followed by a second GET.                                  *)
C10_OneGetPerClick ==
    /\ requests = IF pc = "fetch" THEN clicks - 1 ELSE clicks
    /\ clicks <= runs

C10_Witness ==
    /\ pc = "classify"
    /\ transport.kind = "network_error"
    /\ weather_data = None
    /\ runs = 2
    /\ clicks = 2
    /\ requests = 2

====
